---- MODULE Spec2Model ----
(***************************************************************************)
(* Model of src/myfirstrdma/myfirstrdma.c: two processes, the Initiator    *)
(* (cfg.server set, the client) and the Responder (cfg.server NULL, the    *)
(* passive side), each running main() -> setup() -> run() -> teardown,     *)
(* over one reliable connection.  Every library call is one step; its      *)
(* result is drawn from the values the call can return.                    *)
(***************************************************************************)
EXTENDS Integers, Sequences, FiniteSets, TLC

\* ------------------------------------------------------------------ bounds
MaxIters == 2
MaxSize == 2
\* Rounds of the long run: enough for the int pattern value to pass 255.
PatIters == 129

\* ------------------------------------------------------- program constants
BAD_ARGS == 1
NO_OPEN == 2
NO_MMAP == 3
NO_BUFFER == 4
SETUP_PROBLEM == 5
RUN_PROBLEM == 6

\* Pointer values: NULL, mmap's failure value, and one address per object.
NULL == 0
MAP_FAILED == 0 - 1
MMIO_FD == 3
MMIO_ADDR == 1
BUF_ADDR == 2
LATENCY_ADDR == 4
MR_ADDR == 5

\* Running is the value of code[p] while the process has not returned.
Running == 0 - 1

Proc == {"I", "R"}

Peer(p) == IF p = "I" THEN "R" ELSE "I"

Valid(ptr) == ptr > 0

\* memset(), compare(): char arithmetic.
Byte(v) == v % 256

\* ------------------------------------------------------------------- state
VARIABLES
  cfg,      \* cfg[p]: the parsed options (args, wait, memset, copymmio, peerdirect, mmap, iters, size)
  pc,       \* pc[p]: the call the process is about to make
  code,     \* code[p]: main's return value, Running before it returns
  ret,      \* ret[p]: the local "ret" of setup() / run()
  res,      \* res[p]: cfg.mmiofd, cfg.mmio, cfg.buf, cfg.latency, cfg.mr
  data,     \* data[p]: contents of the transfer buffer, byte by byte
  loc,      \* loc[p]: run()'s i, cval, sval
  tm,       \* tm[p]: the clock gettimeofday reads, cfg.start_time, cfg.end_time
  lat,      \* lat[p]: the writes to cfg.latency, in order: <<index, timestamp>>
  out,      \* out[p]: what run() printed at the end (bytes, average latency)
  err,      \* err[p]: the names report() printed
  calls,    \* calls[p]: every library call made, in order
  qp,       \* qp[p]: the queue pair: posted sends/receives, pending completions
  conn,     \* the connection: request sent, accepted
  mayFail   \* whether library calls may fail in this run

vars == <<cfg, pc, code, ret, res, data, loc, tm, lat, out, err, calls, qp, conn, mayFail>>

Server(c) == c.args = 1

\* ----------------------------------------------------------------- helpers
Upd(f, p, v) == [f EXCEPT ![p] = v]

\* report(): prints func, returns val.
report(e, func) == Append(e, func)

\* A library call as recorded in calls[p].
Call(fn, arg, r, i) == [fn |-> fn, arg |-> arg, ret |-> r, i |-> i]

\* Return values of a call that returns 0 on success.
Rets == IF mayFail THEN {0, 0 - 1} ELSE {0}

\* Pointers a successful-or-not allocation can return.
Ptrs(ok) == IF mayFail THEN {ok, NULL} ELSE {ok}

Filled(n, v) == [k \in 0..(n - 1) |-> v]

\* gettimeofday(): the clock never runs backwards; it advances between reads.
Tick(t) == [t EXCEPT !.now = @ + 1]

\* !x for a pointer or integer.
LNot(x) == IF x = 0 THEN 1 ELSE 0

\* BadArgs without the copymmio/peerdirect exclusion.
BadArgsNoExclusion(c) == c.peerdirect /\ ~c.mmap

\* main() lines 371-375.
BadArgs(c) == (c.copymmio /\ c.peerdirect) \/ (c.peerdirect /\ ~c.mmap)

\* main() lines 377 and 404.
NeedMmio(c) == (c.copymmio \/ c.peerdirect) /\ c.mmap /\ ~Server(c)

\* main() line 383: if (!cfg.mmio < 0)
MmapFailed(m) == LNot(m) < 0

\* main() lines 387 and 408.
BorrowsMmio(c) == c.peerdirect /\ ~Server(c)

\* FreesBuf freeing the buffer whatever it is.
FreesBufAlways(c) == TRUE

\* main() line 408: if (!cfg.peerdirect || cfg.server) free(cfg.buf)
FreesBuf(c) == ~c.peerdirect \/ Server(c)

\* setup() lines 235 and 251: if (ret) after rdma_reg_msgs, ret being the
\* result of the call before it.
RegFailed(r, mr) == r # 0

\* setup()/run(): if (ret)
Failed(r) == r # 0

\* AddrFailed with the check dropped.
AddrFailedUnchecked(r) == FALSE

\* setup() line 198: if (ret) after rdma_getaddrinfo
AddrFailed(r) == r # 0

\* PollFailed with the check dropped.
PollFailedUnchecked(r) == FALSE

\* run(): if (ret != 1) after rdma_get_send_comp / rdma_get_recv_comp
PollFailed(r) == r # 1

\* run() lines 291, 301 and 315, 330: the latency slot of each half round.
LatIndexA(i) == 2 * i

\* LatIndexB writing the slot of the first half round again.
LatIndexBSameSlot(i) == 2 * i

LatIndexB(i) == 2 * i + 1

\* TotalBytes counting one direction only.
TotalBytesOneWay(iters, size) == iters * size

\* run() line 345: cfg->iters*cfg->size*2
TotalBytes(iters, size) == iters * size * 2

\* NextVal leaving the pattern value as it was.
NextValSame(v) == v

\* run() lines 309 and 337: sval = cval+1, cval = sval+1
NextVal(v) == v + 1

elapsed_utime(start_time, end_time) == end_time - start_time

\* compare(): 1 when every byte of buf equals val.
compare(b, val, size) == IF \A k \in 0..(size - 1) : b[k] = val THEN 1 ELSE 0

\* ------------------------------------------------------------ control flow
\* LoopHead with the roles exchanged: the Responder sends first.
LoopHeadSwapped(c, i) ==
  IF i < c.iters
    THEN IF Server(c)
           THEN IF c.wait THEN "wait" ELSE "get_recv_comp"
           ELSE "fill"
    ELSE "finish"

\* The first call of a loop iteration, or the end of the loop (line 281).
LoopHead(c, i) ==
  IF i < c.iters
    THEN IF Server(c) THEN "fill"
         ELSE IF c.wait THEN "wait" ELSE "get_recv_comp"
    ELSE "finish"

\* AfterCreateEp with the Initiator connecting without a registration.
AfterCreateEpNoReg(c) == IF Server(c) THEN "connect" ELSE "listen"

\* setup() lines 233-234 and 243-244: after the endpoint the Initiator
\* registers its buffer, the Responder listens.
AfterCreateEp(c) == IF Server(c) THEN "reg_msgs" ELSE "listen"

\* AfterPostSend going on without polling the send's completion.
AfterPostSendNoPoll(c) == "post_recv"

\* run() lines 287-290 and 326-329: after the send is posted, poll its completion.
AfterPostSend(c) == "get_send_comp"

\* AfterSendComp sending again instead of posting the receive.
AfterSendCompResend(c) == "post_send"

\* AfterRegMsgs with the Responder accepting before it posted a receive.
AfterRegMsgsNoRecv(c) == IF Server(c) THEN "connect" ELSE "accept"

\* setup() lines 237 and 253: after the registration the Initiator connects,
\* the Responder posts its first receive.
AfterRegMsgs(c) == IF Server(c) THEN "connect" ELSE "post_recv0"

\* run() lines 293-294 and 332-333: after the send completed, post the receive.
AfterSendComp(c) == "post_recv"

\* The call that follows a successful call `at`.
Flow(c, at, i) ==
  CASE at = "main"          -> IF NeedMmio(c) THEN "open" ELSE "buf"
    [] at = "open"          -> "mmap"
    [] at = "mmap"          -> "buf"
    [] at = "buf"           -> "latency"
    [] at = "latency"       -> "getaddrinfo"
    [] at = "getaddrinfo"   -> "create_ep"
    [] at = "create_ep"     -> AfterCreateEp(c)
    [] at = "listen"        -> "get_request"
    [] at = "get_request"   -> "reg_msgs"
    [] at = "reg_msgs"      -> AfterRegMsgs(c)
    [] at = "connect"       -> "connecting"
    [] at = "connecting"    -> "run"
    [] at = "post_recv0"    -> "accept"
    [] at = "accept"        -> "run"
    [] at = "run"           -> LoopHead(c, 0)
    [] at = "fill"          -> "post_send"
    [] at = "post_send"     -> AfterPostSend(c)
    [] at = "get_send_comp" -> AfterSendComp(c)
    [] at = "post_recv"     -> IF Server(c)
                                 THEN IF c.wait THEN "wait" ELSE "get_recv_comp"
                                 ELSE LoopHead(c, i + 1)
    [] at = "wait"          -> "get_recv_comp"
    [] at = "get_recv_comp" -> IF Server(c) THEN LoopHead(c, i + 1) ELSE "fill"
    [] at = "finish"        -> IF NeedMmio(c) THEN "munmap" ELSE "free_buf"
    [] at = "munmap"        -> "free_buf"
    [] at = "free_buf"      -> "free_latency"
    [] at = "free_latency"  -> "dereg_mr"
    [] OTHER                -> "exited"

\* -------------------------------------------------------------------- init
ArgsOf(p) == IF p = "I" THEN {1, 2} ELSE {0, 2}

\* cfg.mmap always holds a path: the default (line 113) or the --mmap argument.
Configs(p) ==
  [args : ArgsOf(p), wait : BOOLEAN, memset : BOOLEAN, copymmio : BOOLEAN,
   peerdirect : BOOLEAN, mmap : {TRUE}, iters : 1..MaxIters, size : 1..MaxSize]

InitRest ==
  /\ pc = [p \in Proc |-> "main"]
  /\ code = [p \in Proc |-> Running]
  /\ ret = [p \in Proc |-> 0]
  /\ res = [p \in Proc |-> [mmiofd |-> 0, mmio |-> NULL, buf |-> NULL,
                            latency |-> NULL, mr |-> NULL]]
  /\ data = [p \in Proc |-> Filled(cfg[p].size, 0 - 1)]
  /\ loc = [p \in Proc |-> [i |-> 0, cval |-> 1, sval |-> 0]]
  /\ tm = [p \in Proc |-> [now |-> 0, start_time |-> 0, end_time |-> 0]]
  /\ lat = [p \in Proc |-> <<>>]
  /\ out = [p \in Proc |-> <<>>]
  /\ err = [p \in Proc |-> <<>>]
  /\ calls = [p \in Proc |-> <<>>]
  /\ qp = [p \in Proc |-> [sq |-> 0, rq |-> 0, scq |-> 0, rcq |-> 0]]
  /\ conn = [req |-> FALSE, est |-> FALSE]

\* Both ends of a session are started with the same size and round count;
\* a command line with too many arguments is represented by one with no
\* options (main() lines 363-366 read none of them).
Init ==
  /\ cfg \in [Proc -> UNION {Configs(p) : p \in Proc}]
  /\ \A p \in Proc : cfg[p] \in Configs(p)
  /\ \A p \in Proc :
       cfg[p].args > 1 =>
         ~(cfg[p].wait \/ cfg[p].memset \/ cfg[p].copymmio \/ cfg[p].peerdirect)
  /\ cfg["I"].iters = cfg["R"].iters
  /\ cfg["I"].size = cfg["R"].size
  /\ mayFail = TRUE
  /\ InitRest

\* ----------------------------------------------------------------- returns
\* main() returns val after report() printed the names.
Return(p, val, names) ==
  /\ pc' = Upd(pc, p, "exited")
  /\ code' = Upd(code, p, val)
  /\ err' = Upd(err, p, err[p] \o names)

\* The call succeeded: go on with the next call.
Goto(p, at) ==
  /\ pc' = Upd(pc, p, Flow(cfg[p], at, loc[p].i))
  /\ UNCHANGED <<code, err>>

\* The process is killed by a signal (a write through an invalid pointer).
Killed(p) ==
  /\ pc' = Upd(pc, p, "killed")
  /\ UNCHANGED <<code, err>>

\* -------------------------------------------------------------------- main
\* main() lines 363-375: the argument checks.
Main(p) ==
  /\ pc[p] = "main"
  /\ IF cfg[p].args > 1
       THEN Return(p, 1, <<>>)
       ELSE IF BadArgs(cfg[p])
              THEN Return(p, BAD_ARGS, <<"bad defaults">>)
              ELSE Goto(p, "main")
  /\ UNCHANGED <<cfg, ret, res, data, loc, tm, lat, out, calls, qp, conn, mayFail>>

\* main() lines 378-380: open the device resource.
Open(p) ==
  /\ pc[p] = "open"
  /\ \E fd \in (IF mayFail THEN {MMIO_FD, 0 - 1} ELSE {MMIO_FD}) :
       /\ res' = Upd(res, p, [res[p] EXCEPT !.mmiofd = fd])
       /\ calls' = Upd(calls, p, Append(calls[p], Call("open", 0, fd, 0 - 1)))
       /\ IF fd < 0
            THEN Return(p, NO_OPEN, <<"open">>)
            ELSE Goto(p, "open")
  /\ UNCHANGED <<cfg, ret, data, loc, tm, lat, out, qp, conn, mayFail>>

\* main() lines 381-384: map it.
Mmap(p) ==
  /\ pc[p] = "mmap"
  /\ \E m \in (IF mayFail THEN {MMIO_ADDR, MAP_FAILED} ELSE {MMIO_ADDR}) :
       /\ res' = Upd(res, p, [res[p] EXCEPT !.mmio = m])
       /\ calls' = Upd(calls, p, Append(calls[p], Call("mmap", res[p].mmiofd, m, 0 - 1)))
       /\ IF MmapFailed(m)
            THEN Return(p, NO_MMAP, <<"mmap">>)
            ELSE Goto(p, "mmap")
  /\ UNCHANGED <<cfg, ret, data, loc, tm, lat, out, qp, conn, mayFail>>

\* main() lines 387-393: the transfer buffer, borrowed or allocated.
AllocBuf(p) ==
  /\ pc[p] = "buf"
  /\ IF BorrowsMmio(cfg[p])
       THEN /\ res' = Upd(res, p, [res[p] EXCEPT !.buf = res[p].mmio])
            /\ UNCHANGED calls
            /\ Goto(p, "buf")
       ELSE \E b \in Ptrs(BUF_ADDR) :
              /\ res' = Upd(res, p, [res[p] EXCEPT !.buf = b])
              /\ calls' = Upd(calls, p, Append(calls[p], Call("malloc", 0, b, 0 - 1)))
              /\ IF b = NULL
                   THEN Return(p, NO_BUFFER, <<"malloc">>)
                   ELSE Goto(p, "buf")
  /\ UNCHANGED <<cfg, ret, data, loc, tm, lat, out, qp, conn, mayFail>>

\* main() lines 394-396: the latency log.
AllocLatency(p) ==
  /\ pc[p] = "latency"
  /\ \E l \in Ptrs(LATENCY_ADDR) :
       /\ res' = Upd(res, p, [res[p] EXCEPT !.latency = l])
       /\ calls' = Upd(calls, p, Append(calls[p], Call("malloc", 0, l, 0 - 1)))
       /\ IF l = NULL
            THEN Return(p, NO_BUFFER, <<"malloc">>)
            ELSE Goto(p, "latency")
  /\ UNCHANGED <<cfg, ret, data, loc, tm, lat, out, qp, conn, mayFail>>

\* ------------------------------------------------------------------- setup
\* A setup() call that returns r: on failure setup() reports it and main()
\* returns SETUP_PROBLEM (lines 398-399).
SetupCall(p, at, fn, arg, r) ==
  /\ ret' = Upd(ret, p, r)
  /\ calls' = Upd(calls, p, Append(calls[p], Call(fn, arg, r, 0 - 1)))
  /\ IF Failed(r)
       THEN Return(p, SETUP_PROBLEM, <<fn, "setup">>)
       ELSE Goto(p, at)

\* setup() lines 191-199.
GetAddrInfo(p) ==
  /\ pc[p] = "getaddrinfo"
  /\ \E r \in Rets :
       /\ ret' = Upd(ret, p, r)
       /\ calls' = Upd(calls, p, Append(calls[p], Call("rdma_getaddrinfo", 0, r, 0 - 1)))
       /\ IF AddrFailed(r)
            THEN Return(p, SETUP_PROBLEM, <<"rdma_getaddrinfo", "setup">>)
            ELSE Goto(p, "getaddrinfo")
  /\ UNCHANGED <<cfg, res, data, loc, tm, lat, out, qp, conn, mayFail>>

\* setup() lines 207-226.
CreateEp(p) ==
  /\ pc[p] = "create_ep"
  /\ \E r \in Rets : SetupCall(p, "create_ep", "rdma_create_ep", 0, r)
  /\ UNCHANGED <<cfg, res, data, loc, tm, lat, out, qp, conn, mayFail>>

\* setup() lines 234-236 and 250-252: register the buffer.  ret is not
\* assigned here.  An invalid buffer cannot be registered.
RegMsgs(p) ==
  /\ pc[p] = "reg_msgs"
  /\ \E m \in (IF Valid(res[p].buf) THEN Ptrs(MR_ADDR) ELSE {NULL}) :
       /\ res' = Upd(res, p, [res[p] EXCEPT !.mr = m])
       /\ calls' = Upd(calls, p, Append(calls[p], Call("rdma_reg_msgs", res[p].buf, m, 0 - 1)))
       /\ IF RegFailed(ret[p], m)
            THEN Return(p, SETUP_PROBLEM, <<"rdma_reg_msgs", "setup">>)
            ELSE Goto(p, "reg_msgs")
  /\ UNCHANGED <<cfg, ret, data, loc, tm, lat, out, qp, conn, mayFail>>

\* setup() line 237, the call: the connection request leaves, or the call
\* fails at once.
Connect(p) ==
  /\ pc[p] = "connect"
  /\ \E r \in Rets :
       IF r = 0
         THEN /\ conn' = [conn EXCEPT !.req = TRUE]
              /\ Goto(p, "connect")
              /\ UNCHANGED <<ret, calls>>
         ELSE /\ SetupCall(p, "connect", "rdma_connect", 0, r)
              /\ UNCHANGED conn
  /\ UNCHANGED <<cfg, res, data, loc, tm, lat, out, qp, mayFail>>

\* setup() lines 237-242, the return: rdma_connect blocks until the peer
\* accepted, or fails.
Connected(p) ==
  /\ pc[p] = "connecting"
  /\ \E r \in Rets :
       /\ r = 0 => conn.est
       /\ SetupCall(p, "connecting", "rdma_connect", 0, r)
  /\ UNCHANGED <<cfg, res, data, loc, tm, lat, out, qp, conn, mayFail>>

\* setup() lines 244-246.
Listen(p) ==
  /\ pc[p] = "listen"
  /\ \E r \in Rets : SetupCall(p, "listen", "rdma_listen", 0, r)
  /\ UNCHANGED <<cfg, res, data, loc, tm, lat, out, qp, conn, mayFail>>

\* setup() lines 247-249: blocks until a connection request arrives.
GetRequest(p) ==
  /\ pc[p] = "get_request"
  /\ \E r \in Rets :
       /\ r = 0 => conn.req
       /\ SetupCall(p, "get_request", "rdma_get_request", 0, r)
  /\ UNCHANGED <<cfg, res, data, loc, tm, lat, out, qp, conn, mayFail>>

\* setup() lines 253-255: the Responder's first receive.
PostRecv0(p) ==
  /\ pc[p] = "post_recv0"
  /\ \E r \in Rets :
       /\ SetupCall(p, "post_recv0", "rdma_post_recv", res[p].mr, r)
       /\ qp' = IF r = 0 THEN Upd(qp, p, [qp[p] EXCEPT !.rq = @ + 1]) ELSE qp
  /\ UNCHANGED <<cfg, res, data, loc, tm, lat, out, conn, mayFail>>

\* setup() lines 256-262.
Accept(p) ==
  /\ pc[p] = "accept"
  /\ \E r \in Rets :
       /\ SetupCall(p, "accept", "rdma_accept", 0, r)
       /\ conn' = IF r = 0 THEN [conn EXCEPT !.est = TRUE] ELSE conn
  /\ UNCHANGED <<cfg, res, data, loc, tm, lat, out, qp, mayFail>>

\* --------------------------------------------------------------------- run
\* A run() call failed: run() reports it and main() returns RUN_PROBLEM
\* (lines 401-402).
RunFail(p, fn) == Return(p, RUN_PROBLEM, <<fn, "run">>)

\* Results of rdma_get_send_comp / rdma_get_recv_comp: one completion, or an error.
PollRets == IF mayFail THEN {1, 0 - 1} ELSE {1}

\* gettimeofday(&cfg->latency[idx], NULL)
Stamp(p, idx) ==
  /\ lat' = Upd(lat, p, Append(lat[p], <<idx, tm[p].now>>))
  /\ tm' = Upd(tm, p, Tick(tm[p]))

\* run() lines 273-279: zero the buffer, take the start time.
RunStart(p) ==
  /\ pc[p] = "run"
  /\ IF Valid(res[p].buf)
       THEN /\ data' = Upd(data, p, Filled(cfg[p].size, 0))
            /\ tm' = Upd(tm, p, Tick([tm[p] EXCEPT !.start_time = tm[p].now]))
            /\ Goto(p, "run")
       ELSE /\ Killed(p)
            /\ UNCHANGED <<data, tm>>
  /\ UNCHANGED <<cfg, ret, res, loc, lat, out, calls, qp, conn, mayFail>>

\* The sender's local writes before its send.  Initiator: lines 284-286.
\* Responder: lines 304-306, 309 and 320-325 (the copy to the mapping and
\* back leaves the buffer as it was).
FillBuf(p) ==
  /\ pc[p] = "fill"
  /\ IF Server(cfg[p])
       THEN /\ data' = IF cfg[p].memset
                         THEN Upd(data, p, Filled(cfg[p].size, Byte(loc[p].cval)))
                         ELSE data
            /\ UNCHANGED loc
            /\ Goto(p, "fill")
       ELSE IF cfg[p].copymmio /\ ~Valid(res[p].mmio)
              THEN /\ Killed(p)
                   /\ UNCHANGED <<data, loc>>
              ELSE /\ loc' = Upd(loc, p, [loc[p] EXCEPT !.sval = NextVal(loc[p].cval)])
                   /\ data' = IF cfg[p].memset
                                THEN Upd(data, p, Filled(cfg[p].size, Byte(NextVal(loc[p].cval))))
                                ELSE data
                   /\ Goto(p, "fill")
  /\ UNCHANGED <<cfg, ret, res, tm, lat, out, calls, qp, conn, mayFail>>

\* run() lines 287-289 and 326-328.
PostSend(p) ==
  /\ pc[p] = "post_send"
  /\ \E r \in Rets :
       /\ ret' = Upd(ret, p, r)
       /\ calls' = Upd(calls, p, Append(calls[p], Call("rdma_post_send", res[p].mr, r, loc[p].i)))
       /\ IF Failed(r)
            THEN RunFail(p, "rdma_post_send") /\ UNCHANGED qp
            ELSE Goto(p, "post_send") /\ qp' = Upd(qp, p, [qp[p] EXCEPT !.sq = @ + 1])
  /\ UNCHANGED <<cfg, res, data, loc, tm, lat, out, conn, mayFail>>

\* run() lines 290-293 and 329-332: blocks until the send completed.
GetSendComp(p) ==
  /\ pc[p] = "get_send_comp"
  /\ \E r \in PollRets :
       /\ r = 1 => qp[p].scq > 0
       /\ ret' = Upd(ret, p, r)
       /\ calls' = Upd(calls, p, Append(calls[p], Call("rdma_get_send_comp", 0, r, loc[p].i)))
       /\ Stamp(p, IF Server(cfg[p]) THEN LatIndexA(loc[p].i) ELSE LatIndexB(loc[p].i))
       /\ IF PollFailed(r)
            THEN RunFail(p, "rdma_get_send_comp") /\ UNCHANGED qp
            ELSE Goto(p, "get_send_comp") /\ qp' = Upd(qp, p, [qp[p] EXCEPT !.scq = @ - 1])
  /\ UNCHANGED <<cfg, res, data, loc, out, conn, mayFail>>

\* run() lines 294-296 (then 309) and 333-335 (then 337 and the loop test).
PostRecv(p) ==
  /\ pc[p] = "post_recv"
  /\ \E r \in Rets :
       /\ ret' = Upd(ret, p, r)
       /\ calls' = Upd(calls, p, Append(calls[p], Call("rdma_post_recv", res[p].mr, r, loc[p].i)))
       /\ IF Failed(r)
            THEN RunFail(p, "rdma_post_recv") /\ UNCHANGED <<qp, loc>>
            ELSE /\ Goto(p, "post_recv")
                 /\ qp' = Upd(qp, p, [qp[p] EXCEPT !.rq = @ + 1])
                 /\ loc' = IF Server(cfg[p])
                             THEN Upd(loc, p, [loc[p] EXCEPT !.sval = NextVal(loc[p].cval)])
                             ELSE Upd(loc, p, [loc[p] EXCEPT !.cval = NextVal(loc[p].sval),
                                                              !.i = @ + 1])
  /\ UNCHANGED <<cfg, res, data, tm, lat, out, conn, mayFail>>

\* wait(): lines 298-299 and 312-313; spins until the buffer holds val.
Wait(p) ==
  /\ pc[p] = "wait"
  /\ compare(data[p],
             Byte(IF Server(cfg[p]) THEN loc[p].sval ELSE loc[p].cval),
             cfg[p].size) # 0
  /\ Goto(p, "wait")
  /\ UNCHANGED <<cfg, ret, res, data, loc, tm, lat, out, calls, qp, conn, mayFail>>

\* run() lines 300-303 and 314-317 (then 337 and the loop test): blocks
\* until a receive completed.
GetRecvComp(p) ==
  /\ pc[p] = "get_recv_comp"
  /\ \E r \in PollRets :
       /\ r = 1 => qp[p].rcq > 0
       /\ ret' = Upd(ret, p, r)
       /\ calls' = Upd(calls, p, Append(calls[p], Call("rdma_get_recv_comp", 0, r, loc[p].i)))
       /\ Stamp(p, IF Server(cfg[p]) THEN LatIndexB(loc[p].i) ELSE LatIndexA(loc[p].i))
       /\ IF PollFailed(r)
            THEN RunFail(p, "rdma_get_recv_comp") /\ UNCHANGED <<qp, loc>>
            ELSE /\ Goto(p, "get_recv_comp")
                 /\ qp' = Upd(qp, p, [qp[p] EXCEPT !.rcq = @ - 1])
                 /\ loc' = IF Server(cfg[p])
                             THEN Upd(loc, p, [loc[p] EXCEPT !.cval = NextVal(loc[p].sval),
                                                              !.i = @ + 1])
                             ELSE loc
  /\ UNCHANGED <<cfg, res, data, out, conn, mayFail>>

\* run() lines 341-351: the end time and the summary.
Finish(p) ==
  /\ pc[p] = "finish"
  /\ tm' = Upd(tm, p, Tick([tm[p] EXCEPT !.end_time = tm[p].now]))
  /\ out' = Upd(out, p, Append(out[p],
               [bytes |-> TotalBytes(cfg[p].iters, cfg[p].size),
                avg |-> (elapsed_utime(tm[p].start_time, tm[p].now) \div cfg[p].iters) \div 2]))
  /\ Goto(p, "finish")
  /\ UNCHANGED <<cfg, ret, res, data, loc, lat, calls, qp, conn, mayFail>>

\* ---------------------------------------------------------------- teardown
\* main() lines 404-407.
Munmap(p) ==
  /\ pc[p] = "munmap"
  /\ calls' = Upd(calls, p, calls[p] \o <<Call("munmap", res[p].mmio, 0, 0 - 1),
                                          Call("close", res[p].mmiofd, 0, 0 - 1)>>)
  /\ Goto(p, "munmap")
  /\ UNCHANGED <<cfg, ret, res, data, loc, tm, lat, out, qp, conn, mayFail>>

\* main() lines 408-409.
FreeBuf(p) ==
  /\ pc[p] = "free_buf"
  /\ calls' = IF FreesBuf(cfg[p])
                THEN Upd(calls, p, Append(calls[p], Call("free", res[p].buf, 0, 0 - 1)))
                ELSE calls
  /\ Goto(p, "free_buf")
  /\ UNCHANGED <<cfg, ret, res, data, loc, tm, lat, out, qp, conn, mayFail>>

\* main() line 410.
FreeLatency(p) ==
  /\ pc[p] = "free_latency"
  /\ calls' = Upd(calls, p, Append(calls[p], Call("free", res[p].latency, 0, 0 - 1)))
  /\ Goto(p, "free_latency")
  /\ UNCHANGED <<cfg, ret, res, data, loc, tm, lat, out, qp, conn, mayFail>>

\* main() lines 411-413.  ibv_dereg_mr(NULL) reads through the null
\* pointer: the process is killed, or the call returns and main() returns 0.
DeregMr(p) ==
  /\ pc[p] = "dereg_mr"
  /\ calls' = Upd(calls, p, Append(calls[p], Call("ibv_dereg_mr", res[p].mr, 0, 0 - 1)))
  /\ \E killed \in (IF res[p].mr = NULL THEN BOOLEAN ELSE {FALSE}) :
       IF killed THEN Killed(p) ELSE Return(p, 0, <<>>)
  /\ UNCHANGED <<cfg, ret, res, data, loc, tm, lat, out, qp, conn, mayFail>>

\* --------------------------------------------------------------- transport
Alive(p) == pc[p] \notin {"exited", "killed"}

\* The bytes the receiver's buffer holds after a message of the sender's
\* size landed in it; a message longer than the buffer leaves it undefined.
Place(src, dst) ==
  IF cfg[src].size <= cfg[dst].size
    THEN [k \in 0..(cfg[dst].size - 1) |->
            IF k < cfg[src].size THEN data[src][k] ELSE data[dst][k]]
    ELSE Filled(cfg[dst].size, 0 - 1)

\* The transport moves a posted send into the peer's posted receive and
\* completes both (a send that finds no receive is retried).
Deliver(src) ==
  /\ Alive(src) /\ Alive(Peer(src))
  /\ qp[src].sq > 0
  /\ qp[Peer(src)].rq > 0
  /\ qp' = [qp EXCEPT ![src] = [@ EXCEPT !.sq = @ - 1, !.scq = @ + 1],
                      ![Peer(src)] = [@ EXCEPT !.rq = @ - 1, !.rcq = @ + 1]]
  /\ data' = Upd(data, Peer(src), Place(src, Peer(src)))
  /\ UNCHANGED <<cfg, pc, code, ret, res, loc, tm, lat, out, err, calls, conn, mayFail>>

\* -------------------------------------------------------------------- spec
Step(p) ==
  \/ Main(p) \/ Open(p) \/ Mmap(p) \/ AllocBuf(p) \/ AllocLatency(p)
  \/ GetAddrInfo(p) \/ CreateEp(p) \/ RegMsgs(p) \/ Connect(p) \/ Connected(p)
  \/ Listen(p) \/ GetRequest(p) \/ PostRecv0(p) \/ Accept(p)
  \/ RunStart(p) \/ FillBuf(p) \/ PostSend(p) \/ GetSendComp(p) \/ PostRecv(p)
  \/ Wait(p) \/ GetRecvComp(p) \/ Finish(p)
  \/ Munmap(p) \/ FreeBuf(p) \/ FreeLatency(p) \/ DeregMr(p)

Next == \E p \in Proc : Step(p) \/ Deliver(p)

Spec == Init /\ [][Next]_vars

\* The run on which no library call fails, every process keeps running and
\* the transport keeps delivering.
InitLive ==
  /\ cfg \in [Proc -> UNION {Configs(p) : p \in Proc}]
  /\ \A p \in Proc : cfg[p] \in Configs(p)
  /\ \A p \in Proc :
       cfg[p].args > 1 =>
         ~(cfg[p].wait \/ cfg[p].memset \/ cfg[p].copymmio \/ cfg[p].peerdirect)
  /\ cfg["I"].iters = cfg["R"].iters
  /\ cfg["I"].size = cfg["R"].size
  /\ mayFail = FALSE
  /\ InitRest

SpecLive ==
  /\ InitLive
  /\ [][Next]_vars
  /\ \A p \in Proc : WF_vars(Step(p)) /\ WF_vars(Deliver(p))

\* The long run: pattern-fill on both ends, no call failing, one byte a
\* message, PatIters rounds.
InitPat ==
  /\ cfg \in [Proc -> {[c EXCEPT !.iters = PatIters] : c \in UNION {Configs(p) : p \in Proc}}]
  /\ \A p \in Proc :
       /\ [cfg[p] EXCEPT !.iters = 1] \in Configs(p)
       /\ cfg[p].args <= 1
       /\ cfg[p].memset
       /\ ~cfg[p].peerdirect
       /\ cfg[p].size = 1
  /\ ~cfg["I"].copymmio
  /\ mayFail = FALSE
  /\ InitRest

SpecPat ==
  /\ InitPat
  /\ [][Next]_vars
  /\ \A p \in Proc : WF_vars(Step(p)) /\ WF_vars(Deliver(p))

\* ================================================================== claims
\* Indices of the calls of process p that satisfy a test on the call's name.
Idx(p, fns) == {k \in 1..Len(calls[p]) : calls[p][k].fn \in fns}

\* The calls run() makes, and whether a recorded call failed.
XferFns == {"rdma_post_send", "rdma_post_recv", "rdma_get_send_comp", "rdma_get_recv_comp"}

PollFns == {"rdma_get_send_comp", "rdma_get_recv_comp"}

InRun(c) == c.i >= 0 /\ c.fn \in XferFns

CallFailed(c) == IF c.fn \in PollFns THEN c.ret # 1 ELSE c.ret # 0

Exited(p) == pc[p] = "exited"

\* run() went through all its rounds.
RanAll(p) == pc[p] = "finish" \/ Len(out[p]) > 0

\* C1: once a process has completed all its R rounds, its latency log has
\* been written exactly 2R times, the k-th write going to slot k-1 (so slots
\* 0..2R-1 are written once each and no other slot is written), and the
\* timestamps are non-decreasing in slot order.
C1_LatencyLog ==
  \A p \in Proc :
    RanAll(p) =>
      /\ Len(lat[p]) = 2 * cfg[p].iters
      /\ \A k \in 1..Len(lat[p]) : lat[p][k][1] = k - 1
      /\ \A j, k \in 1..Len(lat[p]) :
           lat[p][j][1] <= lat[p][k][1] => lat[p][j][2] <= lat[p][k][2]

C1_Witness ==
  \E p \in Proc :
    /\ Exited(p) /\ code[p] = 0
    /\ cfg[p].iters >= 2
    /\ Len(lat[p]) = 2 * cfg[p].iters

\* The sends and receives a role issued in round r of the transfer loop.
SendsIn(p, r) == {k \in Idx(p, {"rdma_post_send"}) : calls[p][k].i = r}

RecvsIn(p, r) == {k \in Idx(p, {"rdma_get_recv_comp"}) : calls[p][k].i = r}

PostedRecvsIn(p, r) == {k \in Idx(p, {"rdma_post_recv"}) : calls[p][k].i = r}

\* Positions in calls[p] of the sends and of the receives, in order.
SendRecv(p) == Idx(p, {"rdma_post_send", "rdma_get_recv_comp"})

\* C2: in the calls either role issues during the transfer loop, a round
\* never holds two sends or two receives (neither two receive polls nor two
\* posted receives), so no two consecutive operations of one round are both
\* sends or both receives; and in every round the role has completed it sent
\* exactly once and received exactly once.
C2_Alternation ==
  \A p \in Proc :
    /\ \A r \in 0..(cfg[p].iters - 1) :
         /\ Cardinality(SendsIn(p, r)) <= 1
         /\ Cardinality(RecvsIn(p, r)) <= 1
         /\ Cardinality(PostedRecvsIn(p, r)) <= 1
    /\ \A j, k \in SendRecv(p) :
         (/\ j < k
          /\ calls[p][j].i = calls[p][k].i
          /\ \A m \in SendRecv(p) : ~(j < m /\ m < k))
           => calls[p][j].fn # calls[p][k].fn
    /\ \A r \in 0..(loc[p].i - 1) :
         /\ Cardinality(SendsIn(p, r)) = 1
         /\ Cardinality(RecvsIn(p, r)) = 1
         /\ Cardinality(PostedRecvsIn(p, r)) = 1

C2_Witness ==
  \A p \in Proc :
    /\ loc[p].i >= 2
    /\ Cardinality(SendsIn(p, 1)) = 1
    /\ Cardinality(RecvsIn(p, 1)) = 1

\* No mode flag on either side, one Initiator and one Responder.
NoFlags ==
  \A p \in Proc :
    /\ cfg[p].args <= 1
    /\ ~(cfg[p].wait \/ cfg[p].memset \/ cfg[p].copymmio \/ cfg[p].peerdirect)

BothDone == \A p \in Proc : Exited(p) /\ code[p] = 0 /\ loc[p].i = cfg[p].iters

\* C3: started with the same size and round count and no mode flags, with
\* no call failing, under fair scheduling of both processes and of the
\* transport, both processes eventually complete all R rounds and return 0.
C3_Terminates == NoFlags => <>BothDone

C3_Witness == NoFlags /\ BothDone /\ cfg["I"].iters >= 2

\* C4: the byte count handed to the report is R x S x 2, whatever the
\* flags; a process that returns 0 has reported it exactly once.
C4_TotalBytes ==
  \A p \in Proc :
    /\ \A k \in 1..Len(out[p]) : out[p][k].bytes = cfg[p].iters * cfg[p].size * 2
    /\ (Exited(p) /\ code[p] = 0) => Len(out[p]) = 1

C4_Witness ==
  \E p \in Proc :
    /\ Exited(p) /\ code[p] = 0 /\ Len(out[p]) = 1
    /\ cfg[p].iters >= 2 /\ cfg[p].size >= 2
    /\ cfg[p].wait /\ cfg[p].memset /\ (cfg[p].copymmio \/ cfg[p].peerdirect)
    /\ out[p][1].bytes = 2 * cfg[p].iters * cfg[p].size

C6_MutualExclusion ==
  \A p \in Proc :
    (cfg[p].copymmio /\ cfg[p].peerdirect /\ pc[p] # "main") =>
      /\ Exited(p)
      /\ code[p] = BAD_ARGS
      /\ calls[p] = <<>>
      /\ res[p] = [mmiofd |-> 0, mmio |-> NULL, buf |-> NULL, latency |-> NULL, mr |-> NULL]
      /\ (p = "I" => ~conn.req)

C6_Witness ==
  \E p \in Proc :
    cfg[p].copymmio /\ cfg[p].peerdirect /\ Exited(p) /\ code[p] = BAD_ARGS

\* C7: when the Initiator's rdma_getaddrinfo fails it is the Initiator's last
\* call: no endpoint, no registration, no connect, no connection request, no
\* latency sample, and main() has returned SETUP_PROBLEM.
C7_UnreachablePeer ==
  \A k \in Idx("I", {"rdma_getaddrinfo"}) :
    calls["I"][k].ret # 0 =>
      /\ k = Len(calls["I"])
      /\ Idx("I", {"rdma_create_ep", "rdma_reg_msgs", "rdma_connect"} \cup XferFns) = {}
      /\ res["I"].mr = NULL
      /\ ~conn.req
      /\ lat["I"] = <<>>
      /\ Exited("I")
      /\ code["I"] = SETUP_PROBLEM

C7_Witness ==
  /\ Len(calls["I"]) > 0
  /\ calls["I"][Len(calls["I"])].fn = "rdma_getaddrinfo"
  /\ calls["I"][Len(calls["I"])].ret # 0
  /\ code["I"] = SETUP_PROBLEM

\* The calls of setup().
SetupFns ==
  {"rdma_getaddrinfo", "rdma_create_ep", "rdma_connect", "rdma_listen",
   "rdma_get_request", "rdma_accept"}

\* The exit status the failure of a recorded call belongs to; {} when the
\* call succeeded.
FailureClass(c) ==
  CASE c.fn = "open" /\ c.ret < 0                      -> {NO_OPEN, NO_MMAP}
    [] c.fn = "mmap" /\ c.ret = MAP_FAILED             -> {NO_OPEN, NO_MMAP}
    [] c.fn = "malloc" /\ c.ret = NULL                 -> {NO_BUFFER}
    [] c.fn \in SetupFns /\ c.ret # 0                  -> {SETUP_PROBLEM}
    [] c.fn = "rdma_post_recv" /\ c.i < 0 /\ c.ret # 0 -> {SETUP_PROBLEM}
    [] InRun(c) /\ CallFailed(c)                       -> {RUN_PROBLEM}
    [] OTHER                                           -> {}

\* C8: main() returns 0 exactly when all rounds completed; bad arguments
\* and every failed call (allocation, device open, device mapping, setup,
\* transfer loop) make main() return the status of that class, and the
\* statuses are positive and pairwise distinct.
C8_ExitStatus ==
  /\ Cardinality({BAD_ARGS, NO_OPEN, NO_MMAP, NO_BUFFER, SETUP_PROBLEM, RUN_PROBLEM}) = 6
  /\ \A v \in {BAD_ARGS, NO_OPEN, NO_MMAP, NO_BUFFER, SETUP_PROBLEM, RUN_PROBLEM} : v > 0
  /\ \A p \in Proc :
       /\ Exited(p) => (code[p] = 0 <=> RanAll(p))
       /\ ((cfg[p].args > 1 \/ BadArgs(cfg[p])) /\ pc[p] # "main")
            => (Exited(p) /\ code[p] = BAD_ARGS)
       /\ \A k \in 1..Len(calls[p]) :
            FailureClass(calls[p][k]) # {}
              => (Exited(p) /\ code[p] \in FailureClass(calls[p][k]))

\* C9: no pointer is passed to free() twice, the mapping is unmapped at most
\* once, the handle is deregistered at most once, and ibv_dereg_mr is only
\* ever called on a handle rdma_reg_msgs returned.
C9_ReleaseOnce ==
  \A p \in Proc :
    /\ \A j, k \in Idx(p, {"free"}) : calls[p][j].arg = calls[p][k].arg => j = k
    /\ Cardinality(Idx(p, {"munmap"})) <= 1
    /\ Cardinality(Idx(p, {"ibv_dereg_mr"})) <= 1
    /\ \A k \in Idx(p, {"ibv_dereg_mr"}) : calls[p][k].arg # NULL

\* The pointer x was handed to the release call fn.
Released(p, fn, x) == \E k \in Idx(p, {fn}) : calls[p][k].arg = x

\* C10: when main() has returned, every resource it had acquired has been
\* released: the allocated buffer and the latency log freed, the handle
\* deregistered, the mapping unmapped and its descriptor closed.
C10_ReleasedOnExit ==
  \A p \in Proc :
    Exited(p) =>
      /\ (Valid(res[p].buf) /\ ~BorrowsMmio(cfg[p])) => Released(p, "free", res[p].buf)
      /\ Valid(res[p].latency) => Released(p, "free", res[p].latency)
      /\ Valid(res[p].mr) => Released(p, "ibv_dereg_mr", res[p].mr)
      /\ Valid(res[p].mmio) => Released(p, "munmap", res[p].mmio)
      /\ res[p].mmiofd > 0 => Released(p, "close", res[p].mmiofd)

\* The pointer x was returned to process p by an earlier call of fn.
ReturnedBy(p, fn, x, k) == \E j \in 1..(k - 1) : calls[p][j].fn = fn /\ calls[p][j].ret = x

\* C11: a Responder in peerdirect mode uses the device mapping as its
\* buffer; free() is only ever handed a pointer malloc returned and munmap()
\* only one mmap returned, so the borrowed mapping is never freed and an
\* allocated buffer is never unmapped; a borrowed buffer that is released
\* is released by munmap.
C11_BorrowedNotFreed ==
  \A p \in Proc :
    /\ (BorrowsMmio(cfg[p]) /\ res[p].buf # NULL) => res[p].buf = res[p].mmio
    /\ \A k \in Idx(p, {"free"}) : ReturnedBy(p, "malloc", calls[p][k].arg, k)
    /\ \A k \in Idx(p, {"munmap"}) :
         /\ ReturnedBy(p, "mmap", calls[p][k].arg, k)
         /\ ~ReturnedBy(p, "malloc", calls[p][k].arg, k)
    /\ (BorrowsMmio(cfg[p]) /\ Exited(p) /\ code[p] = 0) =>
         /\ Released(p, "munmap", res[p].buf)
         /\ ~Released(p, "free", res[p].buf)

C11_Witness ==
  /\ cfg["R"].peerdirect /\ cfg["R"].args = 0
  /\ Exited("R") /\ code["R"] = 0
  /\ res["R"].buf = MMIO_ADDR
  /\ Released("R", "munmap", res["R"].buf)
  /\ Exited("I") /\ code["I"] = 0
  /\ Released("I", "free", BUF_ADDR)

\* C12: the Responder calls rdma_accept only after rdma_reg_msgs and a
\* successful rdma_post_recv, in that order; the connection is established
\* only then, and while the Initiator's first send is outstanding the
\* Responder has a receive posted.
C12_RecvBeforeAccept ==
  /\ \A k \in Idx("R", {"rdma_accept"}) :
       \E j, m \in 1..(k - 1) :
         /\ j < m
         /\ calls["R"][j].fn = "rdma_reg_msgs"
         /\ calls["R"][m].fn = "rdma_post_recv" /\ calls["R"][m].ret = 0
  /\ conn.est =>
       \E m \in Idx("R", {"rdma_post_recv"}) : calls["R"][m].ret = 0
  /\ (qp["I"].sq > 0 /\ loc["I"].i = 0) => qp["R"].rq > 0

C12_Witness ==
  /\ qp["I"].sq > 0 /\ loc["I"].i = 0
  /\ pc["R"] = "run"
  /\ qp["R"].rq = 1

\* C13: whenever a send is outstanding on one end of the established
\* connection, the peer already has the receive posted that the message
\* will satisfy (a send never meets an empty receive queue).
C13_RecvPostedAhead ==
  \A src \in Proc :
    (Alive(src) /\ Alive(Peer(src)) /\ conn.est /\ qp[src].sq > 0) =>
      qp[Peer(src)].rq > 0

\* C14: an rdma_reg_msgs call that returns no handle is the last call of
\* the process (no receive posted, no connect or accept, no transfer): the
\* process has returned SETUP_PROBLEM with an empty latency log.
C14_RegFailureIsSetupFailure ==
  \A p \in Proc :
    \A k \in Idx(p, {"rdma_reg_msgs"}) :
      calls[p][k].ret = NULL =>
        /\ k = Len(calls[p])
        /\ Exited(p)
        /\ code[p] = SETUP_PROBLEM
        /\ lat[p] = <<>>

\* The receive completions a role consumed in round r.
GotIn(p, r) == {k \in RecvsIn(p, r) : calls[p][k].ret = 1}

\* C15 as stated: in every round the Responder sends first (half-round A)
\* and then receives, and the Initiator receives first and then sends.
C15_ResponderSendsFirst ==
  \A r \in 0..(MaxIters - 1) :
    /\ \A k \in RecvsIn("R", r) : \E j \in SendsIn("R", r) : j < k
    /\ \A k \in SendsIn("I", r) : \E j \in GotIn("I", r) : j < k

\* C15: in every round the Initiator is the sender of the first half-round
\* (A) and the Responder its receiver, and the Responder is the sender of
\* the second half-round (B) and the Initiator its receiver: the Initiator
\* sends before it receives, the Responder receives before it sends, and a
\* receive of a round completes only on the peer's send of that round.
C15_HalfRoundDirection ==
  \A r \in 0..(MaxIters - 1) :
    /\ \A k \in RecvsIn("I", r) : \E j \in SendsIn("I", r) : j < k
    /\ \A k \in SendsIn("R", r) : \E j \in GotIn("R", r) : j < k
    /\ GotIn("R", r) # {} => \E j \in SendsIn("I", r) : calls["I"][j].ret = 0
    /\ GotIn("I", r) # {} => \E j \in SendsIn("R", r) : calls["R"][j].ret = 0

C15_Witness ==
  /\ GotIn("R", 1) # {} /\ SendsIn("R", 1) # {}
  /\ GotIn("I", 1) # {} /\ SendsIn("I", 1) # {}

\* C16 as stated: the Initiator registers its buffer only after a
\* successful rdma_connect, and not at all on a run whose connect fails.
C16_RegistersAfterConnect ==
  /\ \A k \in Idx("I", {"rdma_reg_msgs"}) :
       \E j \in 1..(k - 1) :
         calls["I"][j].fn = "rdma_connect" /\ calls["I"][j].ret = 0
  /\ (\E j \in Idx("I", {"rdma_connect"}) : calls["I"][j].ret # 0) =>
       Idx("I", {"rdma_reg_msgs"}) = {}

\* C16: the Initiator registers its buffer before it calls rdma_connect:
\* the connection request leaves, and rdma_connect returns (with success or
\* with failure), only after the Initiator's rdma_reg_msgs call; so the
\* registration has been performed on a run whose connect fails as well.
C16_RegistersBeforeConnect ==
  /\ \A k \in Idx("I", {"rdma_connect"}) :
       \E j \in 1..(k - 1) : calls["I"][j].fn = "rdma_reg_msgs"
  /\ (conn.req \/ pc["I"] \in {"connect", "connecting"}) =>
       Idx("I", {"rdma_reg_msgs"}) # {}
  /\ Cardinality(Idx("I", {"rdma_reg_msgs"})) <= 1

C16_Witness ==
  /\ Exited("I") /\ code["I"] = SETUP_PROBLEM
  /\ \E k \in Idx("I", {"rdma_connect"}) :
       /\ calls["I"][k].ret # 0
       /\ \E j \in 1..(k - 1) :
            calls["I"][j].fn = "rdma_reg_msgs" /\ calls["I"][j].ret = MR_ADDR

\* C17: each endpoint has at most one send and at most one receive posted
\* and not yet completed (max_send_wr = max_recv_wr = 1), and a new send or
\* receive is posted only once the completion of the previous one has been
\* consumed, so a posted request and an unconsumed completion never add up
\* to more than one either.
C17_QueueCapacity ==
  \A p \in Proc :
    /\ qp[p].sq <= 1
    /\ qp[p].rq <= 1
    /\ qp[p].sq + qp[p].scq <= 1
    /\ qp[p].rq + qp[p].rcq <= 1

C17_Witness ==
  /\ loc["I"].i >= 1 /\ loc["R"].i >= 1
  /\ qp["I"].sq = 1
  /\ qp["R"].rq = 1

\* C19: whenever the registered buffer is handed to free() or munmap(),
\* its handle has been deregistered by an earlier ibv_dereg_mr call.
C19_DeregBeforeFree ==
  \A p \in Proc :
    \A k \in Idx(p, {"free", "munmap"}) :
      (Valid(res[p].mr) /\ calls[p][k].arg = res[p].buf) =>
        \E j \in 1..(k - 1) :
          calls[p][j].fn = "ibv_dereg_mr" /\ calls[p][j].arg = res[p].mr

\* One Initiator and one Responder, both with --wait and --memset and no
\* other mode flag.
BothWaitMemset ==
  \A p \in Proc :
    /\ cfg[p].args <= 1
    /\ cfg[p].wait /\ cfg[p].memset
    /\ ~(cfg[p].copymmio \/ cfg[p].peerdirect)

\* C20: with busy-wait and pattern-fill enabled on both processes and no
\* call failing, under fair scheduling of both processes and of the
\* transport, every spin ends and both processes complete all R rounds and
\* return 0.
C20_BusyWaitTerminates == BothWaitMemset => <>BothDone

\* The number, counted from 1, of the half-round in which process p sends
\* in its current round: the Initiator's is the first of the round, the
\* Responder's the second.
HalfRound(p) == 2 * loc[p].i + (IF Server(cfg[p]) THEN 1 ELSE 2)

\* Process p has written its pattern for this half-round and the message
\* carrying it has not been delivered yet.
Wrote(p) ==
  /\ cfg[p].memset
  /\ pc[p] = "post_send" \/ (pc[p] = "get_send_comp" /\ qp[p].sq > 0)

\* The byte the busy-wait of process p expects in its current round.
Expected(p) == Byte(IF Server(cfg[p]) THEN loc[p].sval ELSE loc[p].cval)

\* The peer's buffer still holds the pattern of the half-round before the
\* one p sends in (there is none before the Initiator's first).
PeerHoldsPrevious(p) == cfg[Peer(p)].memset /\ (Server(cfg[p]) => loc[p].i > 0)

\* C18 as stated: the pattern value is strictly increasing from each
\* half-round to the next across the whole run.
C18_StrictlyIncreasing ==
  \A p \in Proc :
    (Wrote(p) /\ PeerHoldsPrevious(p)) => data[p][0] > data[Peer(p)][0]

\* C18: with pattern-fill enabled the byte the sender of a half-round
\* writes is the half-round's number (counted from 1) mod 256; it is the
\* previous half-round's byte plus one mod 256, so it differs from it but
\* falls from 255 to 0 every 256 half-rounds; and it is the byte the
\* receiver's busy-wait expects in that half-round.
C18_PatternSequence ==
  \A p \in Proc :
    /\ Wrote(p) =>
         /\ \A k \in 0..(cfg[p].size - 1) : data[p][k] = HalfRound(p) % 256
         /\ PeerHoldsPrevious(p) =>
              /\ data[p][0] = (data[Peer(p)][0] + 1) % 256
              /\ data[p][0] # data[Peer(p)][0]
         /\ (pc[Peer(p)] = "wait" /\ loc[Peer(p)].i = loc[p].i) =>
              Expected(Peer(p)) = data[p][0]
    /\ pc[p] = "wait" =>
         Expected(p) = (IF Server(cfg[p]) THEN HalfRound(p) + 1
                                          ELSE HalfRound(p) - 1) % 256

C18_Witness ==
  /\ Wrote("R") /\ loc["R"].i = 127 /\ data["R"][0] = 0 /\ data["I"][0] = 255
  /\ pc["I"] = "wait" /\ loc["I"].i = 127

\* Process p's next step writes its buffer from local code: the zero-fill
\* on entry to run() (line 273), a pattern fill (lines 286, 325), or the
\* Responder's copy back from the mapping (lines 320-323).
LocalWrite(p) ==
  \/ pc[p] = "run" /\ Valid(res[p].buf)
  \/ /\ pc[p] = "fill"
     /\ cfg[p].memset \/ (~Server(cfg[p]) /\ cfg[p].copymmio /\ Valid(res[p].mmio))

\* C21: a step in which local code writes the buffer is taken only while
\* the process has no receive posted and not yet completed, and no delivered
\* message whose completion it has not consumed.
C21_NoWriteUnderReceive ==
  [][\A p \in Proc :
       (LocalWrite(p) /\ pc'[p] # pc[p]) => (qp[p].rq = 0 /\ qp[p].rcq = 0)]_vars

\* The number of calls of fn by process p that returned r.
Count(p, fn, r) == Cardinality({k \in Idx(p, {fn}) : calls[p][k].ret = r})

\* C22: once both processes have finished all R rounds, each has posted
\* exactly R sends and consumed exactly R send completions and R receive
\* completions; the Initiator has posted R receives and has nothing
\* outstanding; the Responder has posted R+1 receives (one in setup) and
\* exactly one of them stays posted, with no send left to satisfy it.
C22_WorkRequestBalance ==
  (\A p \in Proc : RanAll(p)) =>
    /\ \A p \in Proc :
         /\ Count(p, "rdma_post_send", 0) = cfg[p].iters
         /\ Count(p, "rdma_get_send_comp", 1) = cfg[p].iters
         /\ Count(p, "rdma_get_recv_comp", 1) = cfg[p].iters
         /\ Cardinality(Idx(p, XferFns)) =
              4 * cfg[p].iters + (IF Server(cfg[p]) THEN 0 ELSE 1)
    /\ Count("I", "rdma_post_recv", 0) = cfg["I"].iters
    /\ Count("R", "rdma_post_recv", 0) = cfg["R"].iters + 1
    /\ qp["I"] = [sq |-> 0, rq |-> 0, scq |-> 0, rcq |-> 0]
    /\ qp["R"] = [sq |-> 0, rq |-> 1, scq |-> 0, rcq |-> 0]

C22_Witness ==
  /\ \A p \in Proc : Exited(p) /\ code[p] = 0 /\ cfg[p].iters >= 2
  /\ Count("R", "rdma_post_recv", 0) = cfg["R"].iters + 1
  /\ qp["R"].rq = 1

====
